---- MODULE Spec2Model ----
(***************************************************************************)
(* A model of src/train.py: the TrainingArgs configuration record, the     *)
(* entry point (lines 107-117) and main (lines 53-104).                    *)
(*                                                                         *)
(* Numbers that are floats in the source are kept as scaled integers:      *)
(*   val_split in percent (0.05 -> 5), lr and init_lr in units of 1e-7     *)
(*   (3e-5 -> 300), weight_decay in units of 1e-4 (0.0095 -> 95).          *)
(* Paths are records [abs, segs]: an absolute flag and the components.     *)
(*                                                                         *)
(* data_utils, modeling_utils and training_utils are imported by train.py  *)
(* but are not part of the source tree at hand; what the model needs of    *)
(* them is taken from the written specification and marked as such.        *)
(***************************************************************************)
EXTENDS Integers, Sequences, FiniteSets, TLC

VARIABLES
    pc,                \* position of the running script
    exc,               \* the exception that ended the run ("none" while running)
    raisedAt,          \* the position at which exc was raised
    cls,               \* the defaults written in class TrainingArgs
    devices,           \* jax.device_count()
    args,              \* the variable `args`
    wandb_config,      \* wandb.config
    fs,                \* directories the run has created or written
    fileRows,          \* rows of the CSV file named by args.data_files
    lenData,           \* len(data)
    lenTr,             \* len(tr_data)
    lenVal,            \* len(val_data)
    num_train_steps,   \* local num_train_steps of main
    modelParams,       \* model.params, the parameters held by the object `model`
    state,             \* the training state threaded through the steps
    saveCalls,         \* calls of model.save_pretrained("final-weights")
    finalWeights,      \* the parameters written to final-weights, in order
    checkpoints,       \* the parameters written by periodic checkpoints
    evals,             \* periodic evaluations / log events
    data,              \* the dataset rows (content-level model)
    raw,               \* the rows as loaded, before any encoding
    browse_node_vocab, \* vocabulary of column BROWSE_NODE_ID
    brand_vocab,       \* vocabulary of column BRAND
    heads,             \* output sizes the model heads are created with
    tr_data,           \* training partition (content-level model)
    val_data,          \* validation partition (content-level model)
    sched,             \* the arguments build_tx was called with
    step,              \* the step the schedule is evaluated at
    lrNow              \* the value the schedule returned for `step`

cfgVars   == <<cls, devices, args, wandb_config, fs>>
mainVars  == <<fileRows, lenData, lenTr, lenVal, num_train_steps, modelParams,
               state, saveCalls, finalWeights, checkpoints, evals>>
dataVars  == <<data, raw, browse_node_vocab, brand_vocab, heads, tr_data, val_data>>
schedVars == <<sched, step, lrNow>>
vars      == <<pc, exc, raisedAt, cfgVars, mainVars, dataVars, schedVars>>

(***************************************************************************)
(* Bounds of the model.                                                    *)
(***************************************************************************)
MaxDevices == 2      \* jax.device_count() ranges over 1..MaxDevices
MaxEpochs  == 2      \* configured max_epochs ranges over 1..MaxEpochs
MaxRows    == 3      \* content-level datasets have at most MaxRows rows
MaxWarmup  == 4      \* schedule checks: warmup_steps in 1..MaxWarmup
MaxLr      == 3      \* schedule checks: init_lr, lr in 0..MaxLr
MaxSteps   == 6      \* schedule checks: num_train_steps and evaluated steps

(***************************************************************************)
(* Program constants.                                                      *)
(***************************************************************************)
IGNORE_IDX  == -100
SELECT_ROWS == 1010

\* Python's None.  Column values are numbers in the model (a BRAND string
\* is represented by a number of Brands), and None by a number that is
\* neither a column value nor a vocabulary id nor IGNORE_IDX.
None == -1

(***************************************************************************)
(* Paths and os.path.join.                                                 *)
(***************************************************************************)
Path(abs, segs) == [abs |-> abs, segs |-> segs]

\* os.path.join(a, b): an absolute b discards a; otherwise b is appended.
os_path_join(a, b) ==
    IF b.abs THEN b ELSE Path(a.abs, a.segs \o b.segs)

FINAL_WEIGHTS == Path(FALSE, <<"final-weights">>)

(***************************************************************************)
(* class TrainingArgs (lines 23-50).                                       *)
(***************************************************************************)
FieldNames ==
    {"base_model_id", "logging_steps", "save_steps", "batch_size_per_device",
     "max_epochs", "seed", "val_split", "max_length", "lr", "init_lr",
     "warmup_steps", "weight_decay", "base_dir", "save_dir", "data_files"}

\* The defaults as written in the source.
TrainingArgsDefaults ==
    [base_model_id         |-> "bert-base-uncased",
     logging_steps         |-> 3000,
     save_steps            |-> 10500,
     batch_size_per_device |-> 1,
     max_epochs            |-> 2,
     seed                  |-> 42,
     val_split             |-> 5,
     max_length            |-> 4,
     lr                    |-> 300,
     init_lr               |-> 0,
     warmup_steps          |-> 20000,
     weight_decay          |-> 95,
     base_dir              |-> Path(FALSE, <<"training-expt">>),
     save_dir              |-> Path(FALSE, <<"checkpoints">>),
     data_files            |-> "../dataset/train-v2.csv"]

\* __post_init__ (lines 47-50), os.makedirs aside (see MakedirsFails).
post_init(self, ndev) ==
    [self EXCEPT !.save_dir   = os_path_join(self.base_dir, self.save_dir),
                 !.batch_size = self.batch_size_per_device * ndev]

\* os.makedirs(base_dir, exist_ok=True) raises FileNotFoundError on "".
MakedirsFails(base_dir) == base_dir.segs = <<>> /\ ~base_dir.abs

\* The generated __init__: every field from the keyword or the class
\* default, then __post_init__.  batch_size is not a field; it exists only
\* once __post_init__ has set it.
TrainingArgs(defaults, kw, ndev) ==
    LET self == [f \in FieldNames \cup {"batch_size"} |->
                    IF f \in DOMAIN kw THEN kw[f]
                    ELSE IF f = "batch_size" THEN 0
                    ELSE defaults[f]]
    IN  post_init(self, ndev)

\* dataclasses.asdict: the fields only.
asdict(self) == [f \in FieldNames |-> self[f]]

\* dataclasses.replace(obj, **changes): a new object from the constructor,
\* each field taken from changes or else from obj.
replace(defaults, obj, changes, ndev) ==
    TrainingArgs(defaults,
                 [f \in FieldNames |->
                    IF f \in DOMAIN changes THEN changes[f] ELSE obj[f]],
                 ndev)

NoKw == [f \in {} |-> 0]

\* Lines 108-115 as one expression: the args object main is called with.
EntryArgs(defaults, ndev) ==
    LET a == TrainingArgs(defaults, NoKw, ndev)
    IN  replace(defaults, a, asdict(a), ndev)

(***************************************************************************)
(* Values the variables hold while the part they belong to is not running. *)
(***************************************************************************)
NoArgs  == [f \in {} |-> 0]
NoState == [params |-> -1, step |-> 0]

CfgIdle ==
    /\ wandb_config = NoArgs
    /\ fs = {}

MainIdle ==
    /\ fileRows = 0
    /\ lenData = 0
    /\ lenTr = 0
    /\ lenVal = 0
    /\ num_train_steps = 0
    /\ modelParams = -1
    /\ state = NoState
    /\ saveCalls = 0
    /\ finalWeights = <<>>
    /\ checkpoints = <<>>
    /\ evals = 0

DataIdle ==
    /\ data = <<>>
    /\ raw = <<>>
    /\ browse_node_vocab = <<>>
    /\ brand_vocab = <<>>
    /\ heads = <<>>
    /\ tr_data = <<>>
    /\ val_data = <<>>

SchedIdle ==
    /\ sched = <<>>
    /\ step = 0
    /\ lrNow = <<>>

Running ==
    /\ exc = "none"
    /\ raisedAt = "nowhere"

(***************************************************************************)
(* The entry point, lines 107-117.                                         *)
(***************************************************************************)
\* Configurations a user may write into class TrainingArgs.
BaseDirs == {Path(FALSE, <<"training-expt">>), Path(TRUE, <<"expt">>),
             Path(FALSE, <<>>)}
SaveDirs == {Path(FALSE, <<"checkpoints">>), Path(TRUE, <<"ckpt">>),
             Path(FALSE, <<"run", "checkpoints">>)}

ConfiguredDefaults ==
    { [TrainingArgsDefaults EXCEPT !.base_dir = b, !.save_dir = s,
                                   !.batch_size_per_device = n,
                                   !.max_epochs = e] :
        b \in BaseDirs, s \in SaveDirs, n \in 1..2, e \in 1..MaxEpochs }

InitArgs ==
    /\ pc = "construct"
    /\ Running
    /\ cls \in ConfiguredDefaults
    /\ devices \in 1..MaxDevices
    /\ args = NoArgs
    /\ CfgIdle /\ MainIdle /\ DataIdle /\ SchedIdle

\* Line 108: args = TrainingArgs()
Construct ==
    /\ pc = "construct"
    /\ IF MakedirsFails(cls.base_dir)
       THEN /\ pc' = "raised"
            /\ exc' = "Error"
            /\ raisedAt' = "construct"
            /\ UNCHANGED <<args, fs>>
       ELSE /\ pc' = "wandb_init"
            /\ args' = TrainingArgs(cls, NoKw, devices)
            /\ fs' = fs \cup {cls.base_dir}
            /\ UNCHANGED <<exc, raisedAt>>
    /\ UNCHANGED <<cls, devices, wandb_config, mainVars, dataVars, schedVars>>

\* Line 114: logger = wandb.init(project=..., config=asdict(args))
WandbInit ==
    /\ pc = "wandb_init"
    /\ wandb_config' = asdict(args)
    /\ pc' = "replace"
    /\ UNCHANGED <<exc, raisedAt, cls, devices, args, fs, mainVars, dataVars,
                   schedVars>>

\* Line 115: args = replace(args, **dict(wandb.config))
Replace ==
    /\ pc = "replace"
    /\ args' = replace(cls, args, wandb_config, devices)
    /\ fs' = fs \cup {wandb_config.base_dir}
    /\ pc' = "main"
    /\ UNCHANGED <<exc, raisedAt, cls, devices, wandb_config, mainVars,
                   dataVars, schedVars>>

NextArgs == Construct \/ WandbInit \/ Replace

SpecArgs == InitArgs /\ [][NextArgs]_vars

(***************************************************************************)
(* main, lines 53-104, at the level of row counts, steps and parameters.   *)
(* Parameters are numbered by the updates applied to them: 0 is what       *)
(* from_pretrained loaded, k what the k-th update step produced.           *)
(***************************************************************************)
KeyboardInterrupt == "KeyboardInterrupt"
Error == "Error"

\* Sizes of the two partitions train_test_split(test_size) makes of n rows
\* for a float test_size, given in percent: the test side is rounded up,
\* the train side is the rest.
NTest(n, pct)  == (pct * n + 99) \div 100
NTrain(n, pct) == n - NTest(n, pct)

\* train_test_split raises ValueError for a float test_size outside (0, 1)
\* and for a split that leaves the train side empty.
SplitFails(n, pct) == pct <= 0 \/ pct >= 100 \/ NTrain(n, pct) = 0

\* Line 79.
NumTrainSteps(len_tr, a) == (len_tr \div a.batch_size) * a.max_epochs

\* Lines 98-100: the try statement around trainer.train catches exactly a
\* KeyboardInterrupt raised inside trainer.train.
MutCaughtNever(pos, kind) == FALSE

MutCaughtAny(pos, kind) == pos = "train"

Caught(pos, kind) == pos = "train" /\ kind = KeyboardInterrupt

\* Statements of main that touch neither counts nor parameters, each with
\* the statement that follows it.
Straight ==
    [vocab      |-> "tokenizer",      \* 59-61 -> 63
     tokenizer  |-> "encode",         \* 63    -> 65
     encode     |-> "preprocess",     \* 65    -> 66
     preprocess |-> "split",          \* 66    -> 67
     collator   |-> "model",          \* 71    -> 73
     trainer    |-> "create_state"]   \* 84-94 -> 96

\* Every position of main up to and including the call of trainer.train.
RaisePositions ==
    {"load", "select", "vocab", "tokenizer", "encode", "preprocess", "split",
     "collator", "model", "build_tx", "trainer", "create_state", "train"}

\* Configurations main is run with: the source's, and a short one whose
\* intervals fall inside a run.
ShortRun ==
    [TrainingArgsDefaults EXCEPT !.val_split = 90, !.logging_steps = 30,
                                 !.save_steps = 50, !.warmup_steps = 20]

MainConfigs ==
    {TrainingArgsDefaults} \cup
    { [ShortRun EXCEPT !.max_epochs = e] : e \in 1..MaxEpochs }

\* Sizes of the CSV file: too small for line 55, too small for line 57,
\* exactly and more than SELECT_ROWS.
FileSizes == {1, SELECT_ROWS - 1, SELECT_ROWS, SELECT_ROWS + 190}

Init ==
    /\ pc = "load"
    /\ Running
    /\ cls \in MainConfigs
    /\ devices \in 1..MaxDevices
    /\ args = EntryArgs(cls, devices)
    /\ wandb_config = asdict(TrainingArgs(cls, NoKw, devices))
    /\ fs = {cls.base_dir}
    /\ fileRows \in FileSizes
    /\ lenData = 0
    /\ lenTr = 0
    /\ lenVal = 0
    /\ num_train_steps = 0
    /\ modelParams = -1
    /\ state = NoState
    /\ saveCalls = 0
    /\ finalWeights = <<>>
    /\ checkpoints = <<>>
    /\ evals = 0
    /\ DataIdle /\ SchedIdle

Fail(kind) ==
    /\ exc' = kind
    /\ raisedAt' = pc
    /\ pc' = IF Caught(pc, kind) THEN "caught" ELSE "raised"

\* Lines 54-55: load the CSV and print rows 0 and 1.
LoadDataset ==
    /\ pc = "load"
    /\ IF fileRows < 2
       THEN Fail(Error) /\ UNCHANGED lenData
       ELSE /\ lenData' = fileRows
            /\ pc' = "select"
            /\ UNCHANGED <<exc, raisedAt>>
    /\ UNCHANGED <<cfgVars, fileRows, lenTr, lenVal, num_train_steps,
                   modelParams, state, saveCalls, finalWeights, checkpoints,
                   evals, dataVars, schedVars>>

\* Line 57: data = data.select(range(1010))
SelectRows ==
    /\ pc = "select"
    /\ IF lenData < SELECT_ROWS
       THEN Fail(Error) /\ UNCHANGED lenData
       ELSE /\ lenData' = SELECT_ROWS
            /\ pc' = "vocab"
            /\ UNCHANGED <<exc, raisedAt>>
    /\ UNCHANGED <<cfgVars, fileRows, lenTr, lenVal, num_train_steps,
                   modelParams, state, saveCalls, finalWeights, checkpoints,
                   evals, dataVars, schedVars>>

\* Lines 59-66 and 71, 84-94.
Prepare ==
    /\ pc \in DOMAIN Straight
    /\ pc' = Straight[pc]
    /\ UNCHANGED <<exc, raisedAt, cfgVars, mainVars, dataVars, schedVars>>

\* Lines 67-69.
SplitLen ==
    /\ pc = "split"
    /\ IF SplitFails(lenData, args.val_split)
       THEN Fail(Error) /\ UNCHANGED <<lenTr, lenVal>>
       ELSE /\ lenTr' = NTrain(lenData, args.val_split)
            /\ lenVal' = NTest(lenData, args.val_split)
            /\ pc' = "collator"
            /\ UNCHANGED <<exc, raisedAt>>
    /\ UNCHANGED <<cfgVars, fileRows, lenData, num_train_steps, modelParams,
                   state, saveCalls, finalWeights, checkpoints, evals,
                   dataVars, schedVars>>

\* Lines 73-77: model = Classifier.from_pretrained(...)
LoadModel ==
    /\ pc = "model"
    /\ modelParams' = 0
    /\ pc' = "build_tx"
    /\ UNCHANGED <<exc, raisedAt, cfgVars, fileRows, lenData, lenTr, lenVal,
                   num_train_steps, state, saveCalls, finalWeights,
                   checkpoints, evals, dataVars, schedVars>>

\* Lines 79-82.
ComputeSteps ==
    /\ pc = "build_tx"
    /\ num_train_steps' = NumTrainSteps(lenTr, args)
    /\ pc' = "trainer"
    /\ UNCHANGED <<exc, raisedAt, cfgVars, fileRows, lenData, lenTr, lenVal,
                   modelParams, state, saveCalls, finalWeights, checkpoints,
                   evals, dataVars, schedVars>>

\* Trainer.create_state: the state starts from the model's parameters.
create_state(params) == [params |-> params, step |-> 0]

\* Line 96.
CreateState ==
    /\ pc = "create_state"
    /\ state' = create_state(modelParams)
    /\ pc' = "train"
    /\ UNCHANGED <<exc, raisedAt, cfgVars, fileRows, lenData, lenTr, lenVal,
                   num_train_steps, modelParams, saveCalls, finalWeights,
                   checkpoints, evals, dataVars, schedVars>>

\* train_step_fn: an update returns a new state; the old one, and the
\* parameters the model object holds, are left as they were.
train_step(st) == [params |-> st.params + 1, step |-> st.step + 1]

\* One iteration of the loop inside trainer.train (line 99): an update,
\* then the periodic evaluation and the periodic checkpoint when due.
TrainStep ==
    /\ pc = "train"
    /\ state.step < num_train_steps
    /\ state' = train_step(state)
    /\ evals' = IF state'.step % args.logging_steps = 0
                THEN evals + 1 ELSE evals
    /\ IF state'.step % args.save_steps = 0
       THEN /\ checkpoints' = Append(checkpoints, state'.params)
            /\ fs' = fs \cup {args.save_dir}
       ELSE UNCHANGED <<checkpoints, fs>>
    /\ UNCHANGED <<pc, exc, raisedAt, cls, devices, args, wandb_config,
                   fileRows, lenData, lenTr, lenVal, num_train_steps,
                   modelParams, saveCalls, finalWeights, dataVars, schedVars>>

\* trainer.train returns (line 99); its result is not bound to a name.
TrainReturn ==
    /\ pc = "train"
    /\ state.step = num_train_steps
    /\ pc' = "save"
    /\ UNCHANGED <<exc, raisedAt, cfgVars, mainVars, dataVars, schedVars>>

\* An exception or a keyboard interrupt raised by the statement at pc.
RaiseAt ==
    /\ pc \in RaisePositions
    /\ \E kind \in {KeyboardInterrupt, Error} : Fail(kind)
    /\ UNCHANGED <<cfgVars, mainVars, dataVars, schedVars>>

\* Lines 100-101: the handler prints and falls through.
Catch ==
    /\ pc = "caught"
    /\ pc' = "save"
    /\ UNCHANGED <<exc, raisedAt, cfgVars, mainVars, dataVars, schedVars>>

\* Lines 103-104: model.save_pretrained("final-weights") writes the
\* parameters the object `model` holds.
SaveFinal ==
    /\ pc = "save"
    /\ saveCalls' = saveCalls + 1
    /\ finalWeights' = Append(finalWeights, modelParams)
    /\ fs' = fs \cup {FINAL_WEIGHTS}
    /\ pc' = "done"
    /\ UNCHANGED <<exc, raisedAt, cls, devices, args, wandb_config, fileRows,
                   lenData, lenTr, lenVal, num_train_steps, modelParams,
                   state, checkpoints, evals, dataVars, schedVars>>

Next ==
    \/ LoadDataset
    \/ SelectRows
    \/ Prepare
    \/ SplitLen
    \/ LoadModel
    \/ ComputeSteps
    \/ CreateState
    \/ TrainStep
    \/ TrainReturn
    \/ RaiseAt
    \/ Catch
    \/ SaveFinal

Spec == Init /\ [][Next]_vars

\* main runs its statements one after another: a handler that was entered
\* finishes, and the statement after the try statement is executed.
SpecFair == Spec /\ WF_vars(Catch) /\ WF_vars(SaveFinal)

(***************************************************************************)
(* Claims about main's control flow (checked under Spec / SpecFair).       *)
(***************************************************************************)
InterruptedInTrain == exc = KeyboardInterrupt /\ raisedAt = "train"

\* C1: a KeyboardInterrupt raised during trainer.train is caught (main does
\* not end with it), model.save_pretrained("final-weights") is executed at
\* most once in any run and exactly once in a run that ends after an
\* interrupt of trainer.train or after its normal return, and once the
\* handler or the save statement is reached the run goes on to end with
\* final-weights written.
C1_InterruptStillSaves ==
    /\ [](saveCalls <= 1)
    /\ [](InterruptedInTrain => pc \in {"caught", "save", "done"})
    /\ [](pc = "done" => /\ saveCalls = 1
                         /\ Len(finalWeights) = 1
                         /\ FINAL_WEIGHTS \in fs)
    /\ ((pc = "caught" \/ pc = "save")
            ~> (pc = "done" /\ saveCalls = 1 /\ FINAL_WEIGHTS \in fs))

\* A run interrupted after at least one update step that has ended with
\* the save executed once.
C1_Witness ==
    /\ pc = "done"
    /\ InterruptedInTrain
    /\ state.step > 0
    /\ saveCalls = 1

\* C2: the parameters written to final-weights are those of the training
\* state produced by the last completed update step.
C2_FinalWeightsAreCurrent ==
    pc = "done" => finalWeights[Len(finalWeights)] = state.params

\* C3: every failure other than a KeyboardInterrupt raised inside
\* trainer.train ends main with that error (position "raised"), nothing
\* runs after it, and model.save_pretrained("final-weights") has not been
\* and is not executed.
C3_OtherFailuresPropagate ==
    /\ []((exc # "none" /\ ~InterruptedInTrain)
            => /\ pc = "raised"
               /\ saveCalls = 0
               /\ finalWeights = <<>>
               /\ FINAL_WEIGHTS \notin fs)
    /\ [][pc # "raised"]_vars

\* An error other than KeyboardInterrupt raised by trainer.train after
\* some update steps.
C3_Witness ==
    /\ pc = "raised"
    /\ exc = Error
    /\ raisedAt = "train"
    /\ state.step > 0

DefaultRun == cls = TrainingArgsDefaults /\ devices = 1

\* C10: num_train_steps is floor(len(tr_data) / batch_size) * max_epochs,
\* and with the default configuration on one device it reaches
\* warmup_steps, logging_steps and save_steps.
C10_MilestonesReached ==
    pc \in {"trainer", "create_state", "train", "caught", "save", "done"}
        => /\ num_train_steps = (lenTr \div args.batch_size) * args.max_epochs
           /\ DefaultRun => /\ num_train_steps >= args.warmup_steps
                            /\ num_train_steps >= args.logging_steps
                            /\ num_train_steps >= args.save_steps

(***************************************************************************)
(* main, lines 59-77, at the level of the rows' label columns.  The        *)
(* dataset is the one line 57 selected, scaled down to at most MaxRows     *)
(* rows.  A row is [idx, BRAND, BROWSE_NODE_ID]; idx is the row's index in *)
(* the dataset and is what tells rows apart once they are shuffled.        *)
(***************************************************************************)
Brands == {11, 12}        \* two distinct BRAND strings
Nodes  == {0, 7}          \* BROWSE_NODE_ID values as they stand in the CSV

RowsOfLen(n) ==
    { [i \in 1..n |-> [idx |-> i, BRAND |-> f[i][1], BROWSE_NODE_ID |-> f[i][2]]] :
        f \in [1..n -> (Brands \cup {None}) \X Nodes] }

Datasets == UNION { RowsOfLen(n) : n \in 0..MaxRows }

EmptyVocab == [x \in {} |-> 0]

\* build_or_load_vocab over the first k rows: each distinct non-null value
\* gets the next free id, in order of first encounter.
RECURSIVE VocabUpTo(_, _, _)
VocabUpTo(d, column_name, k) ==
    IF k = 0 THEN EmptyVocab
    ELSE LET v == VocabUpTo(d, column_name, k - 1)
             x == d[k][column_name]
         IN  IF x = None \/ x \in DOMAIN v
             THEN v
             ELSE [y \in DOMAIN v \cup {x} |->
                      IF y = x THEN Cardinality(DOMAIN v) ELSE v[y]]

build_or_load_vocab(d, column_name) == VocabUpTo(d, column_name, Len(d))

\* Line 59.
BrowseNodeVocab(d) == build_or_load_vocab(d, "BROWSE_NODE_ID")

\* Line 60.
MutBrandVocabWrongColumn(d) == build_or_load_vocab(d, "BROWSE_NODE_ID")

BrandVocab(d) == build_or_load_vocab(d, "BRAND")

\* Line 65, the lambda.
MutEncodeNoneAsZero(x, vocab) ==
    IF x.BRAND = None THEN 0 ELSE vocab[x.BRAND]

EncodeBrandLabel(x, vocab) ==
    IF x.BRAND = None THEN IGNORE_IDX ELSE vocab[x.BRAND]

\* brand_vocab[x["BRAND"]] raises KeyError for a value that is no key.
EncodeFails(d, vocab) ==
    \E i \in 1..Len(d) : d[i].BRAND # None /\ d[i].BRAND \notin DOMAIN vocab

\* Dataset.map with a function that returns the BRAND column anew.
MapBrand(d, vocab) ==
    [i \in 1..Len(d) |-> [d[i] EXCEPT !.BRAND = EncodeBrandLabel(d[i], vocab)]]

\* preprocess(data, sep_token): builds the text of each row; it is given
\* no vocabulary, and the label columns pass through it.
preprocess(d) == d

Perms(n) == { p \in [1..n -> 1..n] : \A i, j \in 1..n : p[i] = p[j] => i = j }

\* Dataset.train_test_split for the permutation its seeded generator
\* draws: the first NTest rows of the permutation are the test side, the
\* rest the train side.
train_test_split(d, pct, perm) ==
    LET n == Len(d) IN
    [test  |-> [i \in 1..NTest(n, pct)  |-> d[perm[i]]],
     train |-> [i \in 1..NTrain(n, pct) |-> d[perm[NTest(n, pct) + i]]]]

\* Line 69.
MutSplitAssignTrainTwice(d) == <<d.train, d.train>>

SplitAssign(d) == <<d.train, d.test>>

\* Line 90: the sentinel bound into the loss function.
LossIgnoreIdx == IGNORE_IDX

\* cls_loss_fn, brand term: the rows of a batch that are scored, which are
\* those whose target is not ignore_idx.
BrandLossRows(batch, ignore_idx) ==
    { i \in 1..Len(batch) : batch[i].BRAND # ignore_idx }

DataConfigs ==
    { [TrainingArgsDefaults EXCEPT !.val_split = v] : v \in {5, 50} }

InitData ==
    /\ pc = "vocab"
    /\ Running
    /\ cls \in DataConfigs
    /\ devices = 1
    /\ args = EntryArgs(cls, devices)
    /\ wandb_config = asdict(TrainingArgs(cls, NoKw, devices))
    /\ fs = {cls.base_dir}
    /\ MainIdle
    /\ raw \in Datasets
    /\ data = raw
    /\ browse_node_vocab = EmptyVocab
    /\ brand_vocab = EmptyVocab
    /\ heads = <<>>
    /\ tr_data = <<>>
    /\ val_data = <<>>
    /\ SchedIdle

\* Lines 59-61.
BuildVocabs ==
    /\ pc = "vocab"
    /\ browse_node_vocab' = BrowseNodeVocab(data)
    /\ brand_vocab' = BrandVocab(data)
    /\ pc' = "encode"
    /\ UNCHANGED <<exc, raisedAt, cfgVars, mainVars, data, raw, heads,
                   tr_data, val_data, schedVars>>

\* Line 65.
EncodeBrand ==
    /\ pc = "encode"
    /\ IF EncodeFails(data, brand_vocab)
       THEN Fail(Error) /\ UNCHANGED data
       ELSE /\ data' = MapBrand(data, brand_vocab)
            /\ pc' = "preprocess"
            /\ UNCHANGED <<exc, raisedAt>>
    /\ UNCHANGED <<cfgVars, mainVars, raw, browse_node_vocab, brand_vocab,
                   heads, tr_data, val_data, schedVars>>

\* Line 66.
Preprocess ==
    /\ pc = "preprocess"
    /\ data' = preprocess(data)
    /\ pc' = "split"
    /\ UNCHANGED <<exc, raisedAt, cfgVars, mainVars, raw, browse_node_vocab,
                   brand_vocab, heads, tr_data, val_data, schedVars>>

\* Lines 67-69.
TrainTestSplit ==
    /\ pc = "split"
    /\ IF SplitFails(Len(data), args.val_split)
       THEN Fail(Error) /\ UNCHANGED <<tr_data, val_data>>
       ELSE /\ \E perm \in Perms(Len(data)) :
                 LET d == SplitAssign(train_test_split(data, args.val_split, perm))
                 IN  /\ tr_data' = d[1]
                     /\ val_data' = d[2]
            /\ pc' = "model"
            /\ UNCHANGED <<exc, raisedAt>>
    /\ UNCHANGED <<cfgVars, mainVars, data, raw, browse_node_vocab,
                   brand_vocab, heads, schedVars>>

\* Lines 73-77: the heads are sized by the two vocabularies.  The rows go
\* on to the trainer as they are (lines 84-99).
FromPretrained ==
    /\ pc = "model"
    /\ heads' = [num_browse_nodes |-> Cardinality(DOMAIN browse_node_vocab),
                 num_brands       |-> Cardinality(DOMAIN brand_vocab)]
    /\ pc' = "training"
    /\ UNCHANGED <<exc, raisedAt, cfgVars, mainVars, data, raw,
                   browse_node_vocab, brand_vocab, tr_data, val_data,
                   schedVars>>

NextData ==
    \/ BuildVocabs
    \/ EncodeBrand
    \/ Preprocess
    \/ TrainTestSplit
    \/ FromPretrained

SpecData == InitData /\ [][NextData]_vars

(***************************************************************************)
(* Claims about the data pipeline (checked under SpecData).                *)
(***************************************************************************)
Encoded == pc \in {"preprocess", "split", "model", "training"}
WasSplit == pc \in {"model", "training"}
VocabsBuilt == pc \in {"encode", "preprocess", "split", "model", "training"}

\* The rows main hands to the trainer, train side then validation side.
Handed == tr_data \o val_data

Idx(d) == { d[i].idx : i \in 1..Len(d) }

\* The distinct non-null values of a column of the loaded rows.
Distinct(column_name) ==
    { raw[i][column_name] : i \in 1..Len(raw) } \ {None}

\* C5: once line 65 has run, the BRAND label of every row is IGNORE_IDX
\* exactly when the raw BRAND is None and is brand_vocab[raw BRAND]
\* otherwise; this holds as well for the rows of both partitions, and the
\* brand term of the loss, bound to the same sentinel, scores exactly the
\* rows whose raw BRAND is not None.
C5_BrandEncoding ==
    /\ Encoded =>
         \A i \in 1..Len(data) :
            /\ data[i].BRAND = IGNORE_IDX <=> raw[i].BRAND = None
            /\ raw[i].BRAND # None => data[i].BRAND = brand_vocab[raw[i].BRAND]
    /\ WasSplit =>
         /\ \A i \in 1..Len(Handed) :
               /\ Handed[i].BRAND = IGNORE_IDX <=> raw[Handed[i].idx].BRAND = None
               /\ raw[Handed[i].idx].BRAND # None
                     => Handed[i].BRAND = brand_vocab[raw[Handed[i].idx].BRAND]
         /\ BrandLossRows(Handed, LossIgnoreIdx)
               = { i \in 1..Len(Handed) : raw[Handed[i].idx].BRAND # None }

\* A split dataset holding a row without brand and a row with one.
C5_Witness ==
    /\ WasSplit
    /\ \E i, j \in 1..Len(Handed) :
          /\ raw[Handed[i].idx].BRAND = None
          /\ Handed[i].BRAND = IGNORE_IDX
          /\ raw[Handed[j].idx].BRAND # None

VocabOk(vocab, column_name) ==
    /\ DOMAIN vocab = Distinct(column_name)
    /\ Cardinality(DOMAIN vocab) = Cardinality(Distinct(column_name))
    /\ \A x \in DOMAIN vocab : vocab[x] \in 0..(Cardinality(DOMAIN vocab) - 1)
    /\ \A x, y \in DOMAIN vocab : vocab[x] = vocab[y] => x = y

\* C8: each vocabulary maps exactly the distinct non-null values of its
\* column to distinct non-negative ids, and an empty column gives the
\* empty mapping.
C8_VocabUnique ==
    VocabsBuilt =>
        /\ VocabOk(browse_node_vocab, "BROWSE_NODE_ID")
        /\ VocabOk(brand_vocab, "BRAND")
        /\ raw = <<>> => browse_node_vocab = EmptyVocab /\ brand_vocab = EmptyVocab

\* A column with a repeated value, a second value and a missing one.
C8_Witness ==
    /\ VocabsBuilt
    /\ Len(raw) = MaxRows
    /\ Cardinality(DOMAIN brand_vocab) = 2
    /\ \E i \in 1..Len(raw) : raw[i].BRAND = None
    /\ \E i, j \in 1..Len(raw) : i # j /\ raw[i].BROWSE_NODE_ID = raw[j].BROWSE_NODE_ID

\* C9: every label handed to training is a class index of its head: BRAND
\* is IGNORE_IDX or below num_brands, BROWSE_NODE_ID is below
\* num_browse_nodes.
C9_LabelsInRange ==
    pc = "training" =>
        \A i \in 1..Len(Handed) :
            /\ Handed[i].BRAND \in {IGNORE_IDX} \cup 0..(heads.num_brands - 1)
            /\ Handed[i].BROWSE_NODE_ID \in 0..(heads.num_browse_nodes - 1)

(***************************************************************************)
(* The learning-rate schedule, lines 79-82 and 93.  A rate is a fraction   *)
(* [num, den] of the integer rates init_lr and lr, so that the linear      *)
(* interpolation is exact.                                                 *)
(***************************************************************************)
Rat(num, den) == [num |-> num, den |-> den]
RatLeq(a, b) == a.num * b.den <= b.num * a.den
RatEq(a, b)  == a.num * b.den = b.num * a.den
RatOfInt(n)  == Rat(n, 1)

\* build_tx(lr, init_lr, warmup_steps, num_train_steps, weight_decay): the
\* parameters of the schedule it returns.
build_tx(lr, init_lr, warmup_steps, n_steps, weight_decay) ==
    [lr |-> lr, init_lr |-> init_lr, warmup_steps |-> warmup_steps,
     num_train_steps |-> n_steps, weight_decay |-> weight_decay]

\* Lines 80-82.
MutBuildTxCallSwapped(a, n_steps) ==
    build_tx(a.init_lr, a.lr, a.warmup_steps, n_steps, a.weight_decay)

BuildTxCall(a, n_steps) ==
    build_tx(a.lr, a.init_lr, a.warmup_steps, n_steps, a.weight_decay)

\* The schedule inside the warmup window: the linear interpolation from
\* init_lr at step 0 to lr at step warmup_steps.
Warmup(tx, s) ==
    Rat(tx.init_lr * tx.warmup_steps + (tx.lr - tx.init_lr) * s, tx.warmup_steps)

\* The values the schedule may return at step s.  After the warmup window
\* the rate holds or decays: any rate from 0 to the peak.
ScheduleValues(tx, s) ==
    IF s <= tx.warmup_steps
    THEN {Warmup(tx, s)}
    ELSE { RatOfInt(v) : v \in 0..tx.lr }

SchedConfigs ==
    { [TrainingArgsDefaults EXCEPT !.lr = l, !.init_lr = i, !.warmup_steps = w] :
        l \in 0..MaxLr, i \in 0..MaxLr, w \in 1..MaxWarmup }

InitSched ==
    /\ pc = "build_tx"
    /\ Running
    /\ cls \in SchedConfigs
    /\ devices = 1
    /\ args = EntryArgs(cls, devices)
    /\ wandb_config = asdict(TrainingArgs(cls, NoKw, devices))
    /\ fs = {cls.base_dir}
    /\ fileRows = 0
    /\ lenData = 0
    /\ lenTr \in 0..(MaxSteps \div cls.max_epochs)
    /\ lenVal = 0
    /\ num_train_steps = 0
    /\ modelParams = 0
    /\ state = NoState
    /\ saveCalls = 0
    /\ finalWeights = <<>>
    /\ checkpoints = <<>>
    /\ evals = 0
    /\ DataIdle /\ SchedIdle

\* Lines 79-82.
BuildTx ==
    /\ pc = "build_tx"
    /\ num_train_steps' = NumTrainSteps(lenTr, args)
    /\ sched' = BuildTxCall(args, num_train_steps')
    /\ pc' = "scheduler"
    /\ UNCHANGED <<exc, raisedAt, cfgVars, fileRows, lenData, lenTr, lenVal,
                   modelParams, state, saveCalls, finalWeights, checkpoints,
                   evals, dataVars, step, lrNow>>

\* scheduler_fn(0), the first use of the schedule (line 93).
FirstRate ==
    /\ pc = "scheduler"
    /\ step' = 0
    /\ lrNow' \in ScheduleValues(sched, 0)
    /\ pc' = "rate"
    /\ UNCHANGED <<exc, raisedAt, cfgVars, mainVars, dataVars, sched>>

\* scheduler_fn(step + 1).
NextRate ==
    /\ pc = "rate"
    /\ step < MaxSteps
    /\ step' = step + 1
    /\ lrNow' \in ScheduleValues(sched, step')
    /\ UNCHANGED <<pc, exc, raisedAt, cfgVars, mainVars, dataVars, sched>>

NextSched == BuildTx \/ FirstRate \/ NextRate

SpecSched == InitSched /\ [][NextSched]_vars

\* C7: for init_lr <= lr the schedule main builds returns init_lr at step
\* 0 and lr at step warmup_steps, and does not decrease from one step to
\* the next inside the warmup window, whatever num_train_steps is.
C7_WarmupSchedule ==
    /\ []((pc = "rate" /\ args.init_lr <= args.lr) =>
            /\ step = 0 => RatEq(lrNow, RatOfInt(args.init_lr))
            /\ step = args.warmup_steps => RatEq(lrNow, RatOfInt(args.lr))
            /\ step <= args.warmup_steps =>
                  /\ RatLeq(RatOfInt(args.init_lr), lrNow)
                  /\ RatLeq(lrNow, RatOfInt(args.lr)))
    /\ [][(pc = "rate" /\ args.init_lr <= args.lr /\ step' <= args.warmup_steps)
             => RatLeq(lrNow, lrNow')]_vars

\* The warmup boundary reached with init_lr < lr by a run whose
\* num_train_steps is smaller than warmup_steps.
C7_Witness ==
    /\ pc = "rate"
    /\ args.init_lr < args.lr
    /\ num_train_steps < args.warmup_steps
    /\ args.warmup_steps >= 2
    /\ step = args.warmup_steps
    /\ RatEq(lrNow, RatOfInt(args.lr))

(***************************************************************************)
(* Claim about the entry point (checked under SpecArgs).                   *)
(***************************************************************************)
\* C4: the args object handed to main has save_dir equal to
\* os.path.join(base_dir, configured save_dir) and batch_size equal to
\* batch_size_per_device * device_count, and equals the object first
\* constructed.
C4_DerivedFieldsOnce ==
    pc = "main" =>
        /\ args.save_dir = os_path_join(cls.base_dir, cls.save_dir)
        /\ args.batch_size = args.batch_size_per_device * devices
        /\ asdict(args) = wandb_config

====
